---- MODULE Spec2Model ----
(***************************************************************************)
(* rt-counter: _calc_rt of _rtcounter/_counting.py as a state machine.     *)
(* The run reads the exon records of a feature file into the exon index    *)
(* and the bounding intervals, then classifies the template bundles of a   *)
(* name-sorted alignment file one by one, and finally builds the table.    *)
(* Coordinates are those of HTSeq: 0-based, half-open [start, end), on one *)
(* chromosome.                                                             *)
(***************************************************************************)
EXTENDS Integers, Sequences, FiniteSets, TLC

\* ------------------------------------------------------------------ bounds
GenomeLen == 9
MaxOpLen == 2
MaxAnchor == 2
MaxPlacements == 3
MaxTemplates == 2

Positions == 0..(GenomeLen - 1)

\* ------------------------------------------------------ program constants
MOPS == {"M", "=", "X"}
SOPS == {"N"}
ROPS == {"M", "=", "X", "N", "D"}

ERROR_CODES ==
    [MULTI_MAP |-> 1, ORPHAN |-> 2, FAIL_CHECKS |-> 3, NO_NAME |-> 4,
     MULTI_NAME |-> 5, INSUFF_MATCH |-> 6, UPSTREAM_MATCH |-> 7,
     DOWNSTREAM_MATCH |-> 8]

\* The choices of --countMultimappers (rt_counter.py hands the choice to
\* _calc_rt; the list itself is not part of _counting.py).
COUNTMODES == {"count_all", "count_none", "count_fractional"}

\* The default of --countMultimappers.
D_COUNTMODE == "count_none"

\* The keys of cntStats.
StatKeys ==
    DOMAIN ERROR_CODES \cup {"TOT_PAIRS", "TOT_BASE", "TOT_RT"}

\* A missing segment of a pair.
None == [none |-> TRUE]

\* A local that the turn has not assigned.
Unset == "unset"

\* ---------------------------------------------------------- feature files
Exon(n, s, e, st) == [type |-> "exon", name |-> n, start |-> s, end |-> e, strand |-> st]

\* The feature files a run may be given: records as GFF_Reader yields them
\* (within a name, the stranded exons agree in strand).
\*  1: A on strand + with two abutting exons (bounding interval [1,3)), and
\*     a "gene" record that is no exon.
\*  2: B on strand - over [4,7), with C lying inside it at [6,7).
\*  3: U with unstranded exons only over [2,6), next to D on strand - with
\*     exons at [6,7) and [8,9).
GTFS ==
    << << [type |-> "gene", name |-> "A", start |-> 1, end |-> 3, strand |-> "+"],
          Exon("A", 1, 2, "+"), Exon("A", 2, 3, "+") >>,
       << Exon("B", 4, 7, "-"), Exon("C", 6, 7, "+") >>,
       << Exon("U", 2, 4, "."), Exon("D", 8, 9, "-"), Exon("U", 4, 6, "."),
          Exon("D", 6, 7, "-") >> >>

Names == {"A", "B", "C", "D", "U"}

\* ------------------------------------------------------------- alignments
Op(t, l) == [type |-> t, len |-> l]

GoodFlags ==
    [aligned |-> TRUE, failed_platform_qc |-> FALSE,
     pcr_or_optical_duplicate |-> FALSE, proper_pair |-> TRUE]

\* An operation of a CIGAR string: its type and its length.
RefLen(op) == IF op.type \in ROPS THEN op.len ELSE 0

RECURSIVE RefSum(_, _)
\* Reference bases consumed by the first i operations of a CIGAR string.
RefSum(cigar, i) ==
    IF i = 0 THEN 0 ELSE RefSum(cigar, i - 1) + RefLen(cigar[i])

RECURSIVE CigarList(_, _, _)
\* The first i operations of CIGAR string c at position s, each with its
\* ref_iv (an operation that consumes no reference has an empty ref_iv).
CigarList(s, c, i) ==
    IF i = 0 THEN << >>
    ELSE Append(CigarList(s, c, i - 1),
                [type |-> c[i].type, size |-> c[i].len,
                 ref_iv |-> [start |-> s + RefSum(c, i - 1),
                             end |-> s + RefSum(c, i)]])

\* The alignment HTSeq builds from a SAM line with position s and CIGAR
\* string c: seg.iv, seg.cigar and the flags.
Seg(s, c) ==
    [iv |-> [start |-> s, end |-> s + RefSum(c, Len(c))],
     cigar |-> CigarList(s, c, Len(c)),
     flags |-> GoodFlags]

Reversed(s) == [i \in 1..Len(s) |-> s[Len(s) + 1 - i]]

\* ------------------------------------------------------------- the state
VARIABLES
    pc,               \* "gtf", "loop", "iter", "done" or "aborted"
    gtf,              \* the feature file being read (pathToGTF)
    ff,               \* position of GFF_Reader in it
    fAnchor,          \* the fAnchor argument
    countMultimappers,\* the --countMultimappers choice
    exons,            \* GenomicArrayOfSets: position -> set of names
    ivBounds,         \* name -> bounding interval of its stranded exons
    cntStats, cntBase, cntRT, dictTails,
    bundle,           \* the bundle of the current iteration
    outcome,          \* how the iteration ended: an error code name or "HIT"
    nameBase, lenBase, isDown, lenRT,   \* the iteration's locals
    dfCnt             \* the returned table

vars ==
    << pc, gtf, ff, fAnchor, countMultimappers, exons, ivBounds, cntStats,
       cntBase, cntRT, dictTails, bundle, outcome, nameBase, lenBase, isDown,
       lenRT, dfCnt >>

\* collections.Counter: a missing key reads as 0.
Get(cnt, key) == IF key \in DOMAIN cnt THEN cnt[key] ELSE 0

\* cnt[key] += 1
Inc(cnt, key) ==
    [k \in DOMAIN cnt \cup {key} |-> IF k = key THEN Get(cnt, k) + 1 ELSE cnt[k]]

\* dictTails[key].append(val) on a defaultdict(list)
Append2(dict, key, val) ==
    [k \in DOMAIN dict \cup {key} |->
        IF k = key
        THEN Append(IF k \in DOMAIN dict THEN dict[k] ELSE << >>, val)
        ELSE dict[k]]

\* GenomicInterval.extend_to_include
ExtendToInclude(iv, other) ==
    [iv EXCEPT !.start = IF other.start < @ THEN other.start ELSE @,
               !.end = IF other.end > @ THEN other.end ELSE @]

IvLength(iv) == iv.end - iv.start

\* ------------------------------------------------- reading the feature file
\* exons[feature.iv] += feature.name
AddExon(arr, feature) ==
    [p \in DOMAIN arr |->
        IF feature.start <= p /\ p < feature.end
        THEN arr[p] \cup {feature.name} ELSE arr[p]]

\* The update of ivBounds for one exon record.
AddBound(bounds, feature) ==
    IF feature.strand = "." THEN bounds
    ELSE IF feature.name \notin DOMAIN bounds
    THEN [n \in DOMAIN bounds \cup {feature.name} |->
            IF n = feature.name
            THEN [start |-> feature.start, end |-> feature.end,
                  strand |-> feature.strand]
            ELSE bounds[n]]
    ELSE [bounds EXCEPT ![feature.name] = ExtendToInclude(@, feature)]

\* --------------------------------------------- classifying one placement
\* Orphan test: None in pair.
IsOrphan(pair) == \E i \in 1..Len(pair) : pair[i] = None

\* The aligner's checks on one segment.
SegFailsChecks(seg) ==
    \/ ~seg.flags.aligned
    \/ seg.flags.failed_platform_qc
    \/ seg.flags.pcr_or_optical_duplicate
    \/ ~seg.flags.proper_pair

FailChecks(pair) == \E i \in 1..Len(pair) : SegFailsChecks(pair[i])

\* The reference positions under the segment's match operations.
MatchPositions(seg) ==
    UNION { seg.cigar[i].ref_iv.start..(seg.cigar[i].ref_iv.end - 1) :
              i \in { j \in 1..Len(seg.cigar) : seg.cigar[j].type \in MOPS } }

\* A step of exons[op.ref_iv] carries more than one name. The steps are the
\* maximal runs of positions with one set of names, so a step with several
\* names is a position with several names.
SegMultiName(seg) ==
    \E p \in MatchPositions(seg) : Cardinality(exons[p]) > 1

\* cntNames of a segment: per name, the summed lengths of the steps that
\* carry it (the positions of the match operations lying in it).
CntNames(seg) ==
    LET pos == MatchPositions(seg)
        keys == UNION { exons[p] : p \in pos }
    IN [n \in keys |-> Cardinality({ p \in pos : n \in exons[p] })]

IsMultiName(pair) == \E i \in 1..Len(pair) : SegMultiName(pair[i])

\* namesBase taken from the first segment alone.
NamesOfFirst(pair) == DOMAIN CntNames(pair[1])

\* namesBase: the names met by either segment.
NamesBase(pair) == UNION { DOMAIN CntNames(pair[i]) : i \in 1..Len(pair) }

Max(S) == CHOOSE m \in S : \A x \in S : x <= m

\* lenBase: the larger of the segments' counts for the name.
LenBase(pair, name) ==
    Max({0} \cup { Get(CntNames(pair[i]), name) : i \in 1..Len(pair) })

\* The anchor test with the bound included.
InsuffMatchIncl(len, anchor) == len <= anchor

\* The anchor test.
InsuffMatch(len, anchor) == len < anchor

\* The upstream test that compares starts whatever the strand.
SegIsUpPlusOnly(seg, ivBase) == seg.iv.start < ivBase.start

\* A segment reaches upstream of the bounding interval.
SegIsUp(seg, ivBase) ==
    \/ ivBase.strand = "+" /\ seg.iv.start < ivBase.start
    \/ ivBase.strand = "-" /\ seg.iv.end > ivBase.end

IsUp(pair, ivBase) == \E i \in 1..Len(pair) : SegIsUp(pair[i], ivBase)

\* A segment spans downstream of the bounding interval.
SegIsDown(seg, ivBase) ==
    ~ \/ ivBase.strand = "+" /\ seg.iv.end <= ivBase.end
      \/ ivBase.strand = "-" /\ seg.iv.start >= ivBase.start

\* An operation reaches past the 3' edge.
OpIsPast(op, ivBase) ==
    \/ ivBase.strand = "+" /\ op.ref_iv.end > ivBase.end
    \/ ivBase.strand = "-" /\ op.ref_iv.start < ivBase.start

\* "Correct the upstream bound of ivRT".
CorrectBound(ivRT, ivBase) ==
    IF ivBase.strand = "+"
    THEN [ivRT EXCEPT !.start = ivBase.end]
    ELSE [ivRT EXCEPT !.end = ivBase.start]

RECURSIVE WalkCIGAR(_, _, _, _, _)
\* The walk over itCIGAR from operation i on: the values it appends to
\* listLenRT (one value when it reaches a skip while reading, none when the
\* CIGAR runs out first).
WalkCIGAR(ops, i, isReading, ivRT, ivBase) ==
    IF i > Len(ops) THEN << >>
    ELSE IF ops[i].type \notin ROPS
    THEN WalkCIGAR(ops, i + 1, isReading, ivRT, ivBase)
    ELSE LET op == ops[i]
             past == OpIsPast(op, ivBase)
             reading == isReading \/ past
             iv == IF past /\ op.type \notin SOPS
                   THEN ExtendToInclude(ivRT, op.ref_iv) ELSE ivRT
         IN IF reading /\ op.type \in SOPS
            THEN << IvLength(CorrectBound(iv, ivBase)) >>
            ELSE WalkCIGAR(ops, i + 1, reading, iv, ivBase)

\* What a downstream-spanning segment appends to listLenRT.
SegLenRT(seg, ivBase) ==
    LET posBoundOut == IF ivBase.strand = "+" THEN ivBase.end ELSE ivBase.start
        ivRT == [start |-> posBoundOut, end |-> posBoundOut]
        itCIGAR == IF ivBase.strand = "+"
                   THEN seg.cigar ELSE Reversed(seg.cigar)
    IN WalkCIGAR(itCIGAR, 1, FALSE, ivRT, ivBase)

Range(s) == { s[i] : i \in 1..Len(s) }

\* listLenRT after the loop over the segments, as a set.
ListLenRT(pair, ivBase) ==
    {0} \cup UNION { Range(SegLenRT(pair[i], ivBase)) :
                       i \in { j \in 1..Len(pair) : SegIsDown(pair[j], ivBase) } }

IsDown(pair, ivBase) == \E i \in 1..Len(pair) : SegIsDown(pair[i], ivBase)

\* Downstream match without a readthrough hit.
DownstreamReject(down, len) == down /\ len = 0

Result(o, n, lb, d, lr) ==
    [outcome |-> o, nameBase |-> n, lenBase |-> lb, isDown |-> d, lenRT |-> lr]

\* The body of "for pair in bundle" for one pair: the first failing test
\* decides. "KeyError" is ivBounds[nameBase] for a name without an entry.
Classify(pair) ==
    IF IsOrphan(pair) THEN Result("ORPHAN", Unset, 0, FALSE, 0)
    ELSE IF FailChecks(pair) THEN Result("FAIL_CHECKS", Unset, 0, FALSE, 0)
    ELSE IF IsMultiName(pair) THEN Result("MULTI_NAME", Unset, 0, FALSE, 0)
    ELSE LET names == NamesBase(pair)
         IN IF Cardinality(names) > 1
            THEN Result("MULTI_NAME", Unset, 0, FALSE, 0)
            ELSE IF Cardinality(names) = 0
            THEN Result("NO_NAME", Unset, 0, FALSE, 0)
            ELSE LET name == CHOOSE n \in names : TRUE
                     lb == LenBase(pair, name)
                 IN IF InsuffMatch(lb, fAnchor)
                    THEN Result("INSUFF_MATCH", name, lb, FALSE, 0)
                    ELSE IF name \notin DOMAIN ivBounds
                    THEN Result("KeyError", name, lb, FALSE, 0)
                    ELSE LET ivBase == ivBounds[name]
                         IN IF IsUp(pair, ivBase)
                            THEN Result("UPSTREAM_MATCH", name, lb, FALSE, 0)
                            ELSE LET down == IsDown(pair, ivBase)
                                     lr == Max(ListLenRT(pair, ivBase))
                                 IN IF DownstreamReject(down, lr)
                                    THEN Result("DOWNSTREAM_MATCH", name, lb, down, lr)
                                    ELSE Result("HIT", name, lb, down, lr)

\* ------------------------------------------------------------- the inputs
\* CIGARs: one match, or two matches around a skip, a deletion or an
\* insertion.
Middles ==
    { Op("N", l) : l \in 1..MaxOpLen } \cup { Op("D", 1), Op("I", 1) }

Cigars ==
    { << Op("M", a) >> : a \in 1..MaxOpLen } \cup
    { << Op("M", a), x, Op("M", c) >> :
        a \in 1..MaxOpLen, x \in Middles, c \in 1..MaxOpLen }

Segs ==
    { sg \in { Seg(s, c) : s \in Positions, c \in Cigars } :
        sg.iv.end <= GenomeLen }

Singles == { sg \in Segs : Len(sg.cigar) = 1 }

\* Placements of two mapped segments that pass the aligner's checks.
Pairs == { << a, b >> : a \in Segs, b \in Singles }

\* Placements with one segment missing, or failing one of the checks.
BaseSeg == Seg(1, << Op("M", 2) >>)

BadFlags ==
    { [GoodFlags EXCEPT !.aligned = FALSE],
      [GoodFlags EXCEPT !.failed_platform_qc = TRUE],
      [GoodFlags EXCEPT !.pcr_or_optical_duplicate = TRUE],
      [GoodFlags EXCEPT !.proper_pair = FALSE] }

BadSegs == { [BaseSeg EXCEPT !.flags = f] : f \in BadFlags }

BadPairs ==
    { << BaseSeg, None >>, << None, BaseSeg >> } \cup
    { << BaseSeg, b >> : b \in BadSegs } \cup
    { << b, BaseSeg >> : b \in BadSegs }

\* Placements of a multimapping template.
MultiPairs ==
    { << Seg(s, << Op("M", 2) >>), Seg(s, << Op("M", 2) >>) >> : s \in {1, 4, 6} }

Bundles ==
    { << p >> : p \in Pairs \cup BadPairs } \cup
    UNION { [1..n -> MultiPairs] : n \in 2..MaxPlacements }

\* ------------------------------------------------------------ the actions
\* The state after the set-up of a run on one of the feature files `files`
\* with one of the multimapper modes `modes`.
InitWith(files, modes) ==
    /\ pc = "gtf"
    /\ gtf \in files
    /\ ff = 1
    /\ fAnchor \in 1..MaxAnchor
    /\ countMultimappers \in modes
    /\ exons = [p \in Positions |-> {}]
    /\ ivBounds = << >>
    /\ cntStats = [k \in StatKeys |-> 0]
    /\ cntBase = << >>
    /\ cntRT = << >>
    /\ dictTails = << >>
    /\ bundle = << >>
    /\ outcome = Unset
    /\ nameBase = Unset
    /\ lenBase = 0
    /\ isDown = FALSE
    /\ lenRT = 0
    /\ dfCnt = << >>

\* A run with the default multimapper mode.
Init == InitWith(Range(GTFS), {D_COUNTMODE})

\* A run with any multimapper mode, on the first feature file.
InitModes == InitWith({GTFS[1]}, COUNTMODES)

iterVars == << bundle, outcome, nameBase, lenBase, isDown, lenRT >>
cntVars == << cntStats, cntBase, cntRT, dictTails >>
cfgVars == << gtf, fAnchor, countMultimappers >>

\* One turn of "for feature in ff".
ReadFeature ==
    /\ pc = "gtf"
    /\ ff <= Len(gtf)
    /\ ff' = ff + 1
    /\ IF gtf[ff].type = "exon"
       THEN /\ exons' = AddExon(exons, gtf[ff])
            /\ ivBounds' = AddBound(ivBounds, gtf[ff])
       ELSE UNCHANGED << exons, ivBounds >>
    /\ UNCHANGED << pc, cfgVars, cntVars, iterVars, dfCnt >>

\* The feature file is read; the counters are set up and counting starts.
StartCounting ==
    /\ pc = "gtf"
    /\ ff > Len(gtf)
    /\ pc' = "loop"
    /\ UNCHANGED << ff, exons, ivBounds, cfgVars, cntVars, iterVars, dfCnt >>

\* A rejection count that leaves orphans out.
CountRejectNoOrphan(stats, code) ==
    IF code = "ORPHAN" THEN stats ELSE [stats EXCEPT ![code] = @ + 1]

\* cntStats[code] += 1 for a rejection.
CountReject(stats, code) == [stats EXCEPT ![code] = @ + 1]

\* A base count that is never increased.
CountBaseSkipped(cnt, name) == cnt

\* cntBase[nameBase] += 1
CountBase(cnt, name) == Inc(cnt, name)

\* cntRT[nameBase] += 1 when there is readthrough.
CountRT(cnt, name, len) == IF len > 0 THEN Inc(cnt, name) ELSE cnt

\* A tail list that takes every hit's lenRT.
AddTailAlways(dict, name, len) == Append2(dict, name, len)

\* dictTails[nameBase].append(lenRT) when there is readthrough.
AddTail(dict, name, len) == IF len > 0 THEN Append2(dict, name, len) ELSE dict

\* The counters after a hit.
HitStats(stats, len) ==
    [stats EXCEPT !["TOT_BASE"] = @ + 1,
                  !["TOT_RT"] = IF len > 0 THEN @ + 1 ELSE @]

\* The body of "for bundle in ht.pair_SAM_alignments(aa, bundle=True)" for
\* the bundle b: a bundle of several placements is a multimapper; the one
\* placement of any other bundle is classified and counted. A KeyError ends
\* the run with the turn counted in TOT_PAIRS alone.
ProcessBundle(b) ==
    LET stats == [cntStats EXCEPT !["TOT_PAIRS"] = @ + 1]
        r == IF Len(b) > 1
             THEN Result("MULTI_MAP", Unset, 0, FALSE, 0)
             ELSE Classify(b[1])
    IN /\ bundle' = b
       /\ outcome' = r.outcome
       /\ nameBase' = r.nameBase
       /\ lenBase' = r.lenBase
       /\ isDown' = r.isDown
       /\ lenRT' = r.lenRT
       /\ pc' = IF r.outcome = "KeyError" THEN "aborted" ELSE "iter"
       /\ cntStats' = IF r.outcome = "KeyError" THEN stats
                      ELSE IF r.outcome = "HIT" THEN HitStats(stats, r.lenRT)
                      ELSE CountReject(stats, r.outcome)
       /\ cntBase' = IF r.outcome = "HIT"
                     THEN CountBase(cntBase, r.nameBase) ELSE cntBase
       /\ cntRT' = IF r.outcome = "HIT"
                   THEN CountRT(cntRT, r.nameBase, r.lenRT) ELSE cntRT
       /\ dictTails' = IF r.outcome = "HIT"
                       THEN AddTail(dictTails, r.nameBase, r.lenRT)
                       ELSE dictTails
       /\ UNCHANGED << ff, exons, ivBounds, cfgVars, dfCnt >>

\* The loop turns to the next bundle; the locals of the turn are dead.
NextBundle ==
    /\ pc = "iter"
    /\ pc' = "loop"
    /\ bundle' = << >>
    /\ outcome' = Unset
    /\ nameBase' = Unset
    /\ lenBase' = 0
    /\ isDown' = FALSE
    /\ lenRT' = 0
    /\ UNCHANGED << ff, exons, ivBounds, cfgVars, cntVars, dfCnt >>

\* The alignment file is read: cntRT gets its zeros and the table is built.
Finish ==
    /\ pc = "loop"
    /\ pc' = "done"
    /\ cntRT' = [k \in DOMAIN cntBase |-> Get(cntRT, k)]
    /\ dfCnt' = [k \in DOMAIN cntBase |->
                   [id |-> k, count_base |-> cntBase[k],
                    count_readthrough |-> Get(cntRT, k)]]
    /\ UNCHANGED << ff, exons, ivBounds, cfgVars, cntStats, cntBase, dictTails,
                    iterVars >>

\* One turn of the loop over the bundles of the alignment file.
NextTemplate ==
    /\ pc = "loop"
    /\ cntStats["TOT_PAIRS"] < MaxTemplates
    /\ \E b \in Bundles : ProcessBundle(b)

Next ==
    \/ ReadFeature
    \/ StartCounting
    \/ NextTemplate
    \/ NextBundle
    \/ Finish

Spec == Init /\ [][Next]_vars

SpecModes == InitModes /\ [][Next]_vars

\* ---------------------------------------------------------- the properties
\* What the properties say of a placement is computed here from the
\* placement and the exon index alone, not from the classifier's operators.

RejectKeys == DOMAIN ERROR_CODES

RECURSIVE SumOver(_, _)
SumOver(f, S) ==
    IF S = {} THEN 0
    ELSE LET k == CHOOSE x \in S : TRUE IN f[k] + SumOver(f, S \ {k})

\* A turn of the loop has just handled a bundle of exactly one placement.
SingleTurn == pc \in {"iter", "aborted"} /\ Len(bundle) = 1

\* Both segments are there and pass the aligner's checks.
Structural(pair) ==
    \A i \in 1..Len(pair) : pair[i] # None /\ pair[i].flags = GoodFlags

MatchOps(seg) ==
    { seg.cigar[i] : i \in { j \in 1..Len(seg.cigar) : seg.cigar[j].type \in MOPS } }

OpPositions(op) == { p \in Positions : op.ref_iv.start <= p /\ p < op.ref_iv.end }

\* The feature ids a match operation overlaps, and those a segment overlaps.
OpIds(op) == UNION { exons[p] : p \in OpPositions(op) }
SegIds(seg) == UNION { OpIds(op) : op \in MatchOps(seg) }
PairIds(pair) == UNION { SegIds(pair[i]) : i \in 1..Len(pair) }

\* Match bases of a segment that overlap feature f.
Overlap(seg, f) ==
    Cardinality({ p \in UNION { OpPositions(op) : op \in MatchOps(seg) } :
                    f \in exons[p] })

\* The placement has a unique candidate feature.
HasCandidate(pair) ==
    /\ Structural(pair)
    /\ Cardinality(PairIds(pair)) = 1
Candidate(pair) == CHOOSE f \in PairIds(pair) : TRUE

\* The larger of the two segments' overlaps with the candidate.
MaxOverlap(pair) ==
    LET f == Candidate(pair)
    IN IF Overlap(pair[1], f) >= Overlap(pair[2], f)
       THEN Overlap(pair[1], f) ELSE Overlap(pair[2], f)

C8_AnchorBoundary ==
    (SingleTurn /\ HasCandidate(bundle[1])) =>
        /\ nameBase = Candidate(bundle[1])
        /\ lenBase = MaxOverlap(bundle[1])
        /\ (outcome = "INSUFF_MATCH") <=> (MaxOverlap(bundle[1]) < fAnchor)

\* An overlap of exactly fAnchor is accepted, and fAnchor 2 is in use, so
\* that an overlap of fAnchor - 1 is an overlap and not an absence.
C8_Witness ==
    /\ SingleTurn /\ HasCandidate(bundle[1])
    /\ fAnchor = 2
    /\ MaxOverlap(bundle[1]) = fAnchor
    /\ outcome = "HIT"

\* C10: every feature's readthrough count is at most its base count.
C10_TierContainment ==
    \A f \in Names : Get(cntRT, f) <= Get(cntBase, f)

C10_Witness ==
    \E f \in Names : Get(cntRT, f) = 1 /\ Get(cntBase, f) = 2

\* The geometry of feature f as the feature file gives it: its exons with a
\* strand, their strand, and the interval from the least start to the
\* greatest end among them.
StrandedExons(f) ==
    { gtf[i] : i \in { j \in 1..Len(gtf) :
                         /\ gtf[j].type = "exon"
                         /\ gtf[j].name = f
                         /\ gtf[j].strand # "." } }
HasGeometry(f) == StrandedExons(f) # {}
FStrand(f) == (CHOOSE e \in StrandedExons(f) : TRUE).strand
FStart(f) ==
    CHOOSE x \in { e.start : e \in StrandedExons(f) } :
        \A e \in StrandedExons(f) : x <= e.start
FEnd(f) ==
    CHOOSE x \in { e.end : e \in StrandedExons(f) } :
        \A e \in StrandedExons(f) : x >= e.end

\* The placement passes every test up to and including the anchor test, and
\* its candidate has a bounding interval.
PassedAnchor(pair) ==
    /\ HasCandidate(pair)
    /\ MaxOverlap(pair) >= fAnchor
    /\ HasGeometry(Candidate(pair))

\* The segment's mapped interval reaches beyond the 5' side of f, beyond its
\* 3' side.
ExtendsUp(seg, f) ==
    IF FStrand(f) = "+" THEN seg.iv.start < FStart(f) ELSE seg.iv.end > FEnd(f)
ExtendsDown(seg, f) ==
    IF FStrand(f) = "+" THEN seg.iv.end > FEnd(f) ELSE seg.iv.start < FStart(f)

AnyUp(pair) == \E i \in 1..Len(pair) : ExtendsUp(pair[i], Candidate(pair))
AnyDown(pair) == \E i \in 1..Len(pair) : ExtendsDown(pair[i], Candidate(pair))

\* The placement reaches the downstream step.
ReachesDownstream(pair) == PassedAnchor(pair) /\ ~AnyUp(pair)

\* The turn handled a placement that passed the anchor test and has a
\* segment beyond the 5' side of its candidate.
UpstreamCase ==
    /\ SingleTurn
    /\ PassedAnchor(bundle[1])
    /\ AnyUp(bundle[1])

\* C9: a placement that passes the anchor test and has a segment beyond the
\* 5' side of its candidate's bounding interval is rejected UPSTREAM_MATCH;
\* the downstream step is not evaluated and no feature counter or tail list
\* changes.
C9_UpstreamRejection ==
    [][(pc = "loop" /\ UpstreamCase') =>
          /\ outcome' = "UPSTREAM_MATCH"
          /\ isDown' = FALSE /\ lenRT' = 0
          /\ cntStats'["UPSTREAM_MATCH"] = cntStats["UPSTREAM_MATCH"] + 1
          /\ UNCHANGED << cntBase, cntRT, dictTails >>]_vars

\* A segment ends after the bounding end of a candidate on strand -.
C9_Witness ==
    /\ UpstreamCase
    /\ FStrand(Candidate(bundle[1])) = "-"
    /\ outcome = "UPSTREAM_MATCH"

\* Reference positions of the segment past the 3' edge of f, and those of
\* them that lie in a skip.
PastEdge(seg, f) ==
    { p \in Positions :
        /\ seg.iv.start <= p /\ p < seg.iv.end
        /\ IF FStrand(f) = "+" THEN p >= FEnd(f) ELSE p < FStart(f) }
SkipPositions(seg) ==
    UNION { OpPositions(seg.cigar[i]) :
              i \in { j \in 1..Len(seg.cigar) : seg.cigar[j].type \in SOPS } }

\* No skip of the segment lies downstream of the 3' edge of f.
NoSkipPast(seg, f) == PastEdge(seg, f) \cap SkipPositions(seg) = {}

\* Reference bases from the 3' edge of f to the downstream end of the segment.
EdgeToEnd(seg, f) ==
    IF FStrand(f) = "+" THEN seg.iv.end - FEnd(f) ELSE FStart(f) - seg.iv.start

\* The tail of a segment as the specification measures it: the reference
\* bases under non-skip operations between the 3' edge and the first skip
\* at or downstream of it (the end of the segment, when there is none).
SpecTail(seg, f) ==
    LET past == PastEdge(seg, f)
        skips == past \cap SkipPositions(seg)
    IN Cardinality({ p \in past :
                       \A q \in skips :
                           IF FStrand(f) = "+" THEN p < q ELSE p > q })

MaxSpecTail(pair) ==
    LET f == Candidate(pair)
    IN IF SpecTail(pair[1], f) >= SpecTail(pair[2], f)
       THEN SpecTail(pair[1], f) ELSE SpecTail(pair[2], f)

Last(seq) == seq[Len(seq)]

\* C2: a placement that reaches the downstream step and has a segment that
\* runs past the 3' edge with no skip downstream of the edge is accepted as
\* readthrough, with a tail of at least the bases from the edge to the end of
\* that segment recorded for the feature.
C2_TailToSegmentEnd ==
    (SingleTurn /\ ReachesDownstream(bundle[1])) =>
        \A i \in 1..2 :
            LET f == Candidate(bundle[1])
                seg == bundle[1][i]
            IN (ExtendsDown(seg, f) /\ NoSkipPast(seg, f)) =>
                  /\ outcome = "HIT"
                  /\ lenRT >= EdgeToEnd(seg, f)
                  /\ f \in DOMAIN dictTails
                  /\ Last(dictTails[f]) = lenRT

\* C4: the tail of a placement that reaches the downstream step is the
\* largest of its segments' tails, each measured up to the first skip at or
\* downstream of the 3' edge; the placement is a readthrough hit when that is
\* positive and is rejected DOWNSTREAM_MATCH when a segment extends
\* downstream and it is 0.
C4_SkipTerminatedTail ==
    (SingleTurn /\ ReachesDownstream(bundle[1])) =>
        LET m == MaxSpecTail(bundle[1])
        IN /\ m > 0 => (outcome = "HIT" /\ lenRT = m)
           /\ (AnyDown(bundle[1]) /\ m = 0) => outcome = "DOWNSTREAM_MATCH"

\* C6: a placement whose only overlapped feature has unstranded exons only,
\* overlapped with at least fAnchor bases, ends in a counted rejection; the
\* run does not abort.
C6_NoGeometryIsRejection ==
    (/\ SingleTurn
     /\ HasCandidate(bundle[1])
     /\ MaxOverlap(bundle[1]) >= fAnchor
     /\ ~HasGeometry(Candidate(bundle[1]))) =>
        (pc = "iter" /\ outcome \in RejectKeys)

\* The turn recorded a tail: a readthrough hit.
TailRecorded == SingleTurn /\ outcome = "HIT" /\ lenRT > 0

\* The segments of the turn's placement whose walk produced the recorded
\* tail.
Producers ==
    { sg \in Range(bundle[1]) :
        /\ SegIsDown(sg, ivBounds[nameBase])
        /\ lenRT \in Range(SegLenRT(sg, ivBounds[nameBase])) }

\* The segment starts at or upstream of the 3' edge of f.
StartsByEdge(seg, f) ==
    IF FStrand(f) = "+" THEN seg.iv.start <= FEnd(f) ELSE seg.iv.end >= FStart(f)

AllTailsPositive ==
    \A f \in DOMAIN dictTails :
        \A i \in 1..Len(dictTails[f]) : dictTails[f][i] > 0

C5_AmbiguityRejects ==
    (/\ SingleTurn
     /\ Structural(bundle[1])
     /\ PairIds(bundle[1]) # {}
     /\ \/ \E i \in 1..2 : \E op \in MatchOps(bundle[1][i]) :
              Cardinality(OpIds(op)) > 1
        \/ ~ \E f \in Names :
                SegIds(bundle[1][1]) = {f} /\ SegIds(bundle[1][2]) = {f}) =>
        outcome = "MULTI_NAME"

\* The turn handled a structurally valid placement whose segments overlap
\* several feature ids, in one match operation or between them.
SeveralIds ==
    /\ SingleTurn
    /\ Structural(bundle[1])
    /\ Cardinality(PairIds(bundle[1])) > 1

\* C5 as the code has it: a structurally valid placement is rejected
\* MULTI_NAME, and no feature counter or tail list changes, exactly when its
\* match operations overlap several feature ids, in one operation or over
\* the two segments together; a segment that overlaps no feature does not
\* make the placement ambiguous.
C5_SeveralIdsReject ==
    [][(pc = "loop" /\ SingleTurn' /\ Structural(bundle'[1])) =>
          /\ (outcome' = "MULTI_NAME") <=> SeveralIds'
          /\ SeveralIds' =>
                /\ cntStats'["MULTI_NAME"] = cntStats["MULTI_NAME"] + 1
                /\ UNCHANGED << cntBase, cntRT, dictTails >>]_vars

\* Each segment overlaps one feature, and not the same one.
C5_Witness ==
    /\ SeveralIds
    /\ \A i \in 1..2 : Cardinality(SegIds(bundle[1][i])) = 1
    /\ outcome = "MULTI_NAME"

\* A placement that would be a base hit on its own: it passes the anchor
\* test and neither segment reaches beyond the bounding interval.
ValidPlacement(pair) ==
    /\ PassedAnchor(pair)
    /\ ~AnyUp(pair)
    /\ ~AnyDown(pair)

TotalBase(cnt) == SumOver(cnt, DOMAIN cnt)

\* C7: a template with n > 1 placements, each valid on its own, adds n to
\* the base counts under count_all and 1 under count_fractional; under
\* count_none it changes no feature counter and adds 1 to MULTI_MAP.
C7_MultimappingModes ==
    [][(/\ pc = "loop" /\ pc' = "iter"
        /\ Len(bundle') > 1
        /\ \A i \in 1..Len(bundle') : ValidPlacement(bundle'[i])) =>
          /\ countMultimappers = "count_all" =>
                TotalBase(cntBase') = TotalBase(cntBase) + Len(bundle')
          /\ countMultimappers = "count_fractional" =>
                TotalBase(cntBase') = TotalBase(cntBase) + 1
          /\ countMultimappers = "count_none" =>
                /\ UNCHANGED << cntBase, cntRT, dictTails >>
                /\ cntStats'["MULTI_MAP"] = cntStats["MULTI_MAP"] + 1]_vars

====
